---- MODULE Spec2Model ----
(***************************************************************************)
(* Trado: the in-memory trading engine (src/lib/trading-engine.ts), the    *)
(* risk manager (src/lib/risk-management.ts) and the store that calls the  *)
(* engine (src/stores/trading-store.ts).                                   *)
(*                                                                         *)
(* Numbers.  A JavaScript number is modelled as an exact rational <<n, d>> *)
(* in lowest terms with d >= 0; <<1, 0>> is Infinity and <<>> is           *)
(* undefined.  Strings keep their text; "" stands for a missing string     *)
(* field (undefined and "" are both falsy).  An optional timestamp or      *)
(* string is <<>> when absent and <<v>> when set.                          *)
(***************************************************************************)
EXTENDS Integers, Sequences, FiniteSets, TLC

VARIABLES
  orders,        \* TradingEngine.orders: order id -> Order
  positions,     \* TradingEngine.positions: position key -> Position
  positionKeys,  \* the keys of `positions` in Map insertion order
  trades,        \* TradingEngine.trades
  orderCounter,  \* TradingEngine.orderCounter
  now,           \* Date.now()
  inflight,      \* the executeOrder calls suspended at an await
  last,          \* the call or return made by the step just taken
  input,         \* the arguments of a call of a pure function
  output,        \* its result
  limits,        \* RiskManager.limits
  store          \* the state of useTradingStore

engine == <<orders, positions, positionKeys, trades, orderCounter, now, inflight, last>>
pure == <<input, output, limits, store>>
vars == <<orders, positions, positionKeys, trades, orderCounter, now, inflight, last,
          input, output, limits, store>>

----------------------------------------------------------------------------
(* Bounds of the exploration *)

\* executeOrder calls that pass validation (stored orders) in one behaviour
MaxOrders == 2
\* stored orders in one behaviour of the single-key specification
MaxOrdersDeep == 3
\* executeOrder calls suspended at an await at the same time
MaxInflight == 2
\* the clock Date.now() runs over 0..MaxNow
MaxNow == 1
\* positions in the list given to the risk manager
MaxPositions == 3

----------------------------------------------------------------------------
(* Numbers *)

Undef == <<>>

RECURSIVE Gcd(_, _)
Gcd(a, b) == IF b = 0 THEN a ELSE Gcd(b, a % b)

IAbs(i) == IF i < 0 THEN -i ELSE i

Norm(n, d) ==
  IF d = 0 THEN <<1, 0>>
  ELSE LET s == IF d < 0 THEN -1 ELSE 1
           g == Gcd(IAbs(n), IAbs(d))
       IN  <<(s * n) \div g, (s * d) \div g>>

R(i) == <<i, 1>>
Infinity == <<1, 0>>

RAdd(a, b) == Norm(a[1] * b[2] + b[1] * a[2], a[2] * b[2])
RSub(a, b) == Norm(a[1] * b[2] - b[1] * a[2], a[2] * b[2])
RMul(a, b) == Norm(a[1] * b[1], a[2] * b[2])
RDiv(a, b) == Norm(a[1] * b[2], a[2] * b[1])
RNeg(a) == <<-a[1], a[2]>>
RLt(a, b) == a[1] * b[2] < b[1] * a[2]
RGt(a, b) == RLt(b, a)
RLe(a, b) == ~RLt(b, a)
RGe(a, b) == ~RLt(a, b)
RAbs(a) == <<IAbs(a[1]), a[2]>>
RSign(a) == IF a[1] > 0 THEN 1 ELSE IF a[1] < 0 THEN -1 ELSE 0
RMin(a, b) == IF RLt(b, a) THEN b ELSE a

\* JavaScript truthiness of an optional number / of a string
Truthy(x) == x # Undef /\ x[1] # 0
TruthyStr(s) == s # ""

\* x || y on optional numbers
OrElse(x, y) == IF Truthy(x) THEN x ELSE y

\* Number.prototype.toFixed(k) of a finite non-negative rational, k in {1, 2}
RECURSIVE Pow10(_)
Pow10(k) == IF k = 0 THEN 1 ELSE 10 * Pow10(k - 1)

Pad(i, k) == IF k = 2 /\ i < 10 THEN "0" \o ToString(i) ELSE ToString(i)

toFixed(x, k) ==
  IF x[2] = 0 THEN "Infinity"
  ELSE LET scaled == (2 * x[1] * Pow10(k) + x[2]) \div (2 * x[2])
       IN  ToString(scaled \div Pow10(k)) \o "." \o Pad(scaled % Pow10(k), k)

\* Array.prototype.join(', ')
RECURSIVE join(_)
join(s) ==
  IF Len(s) = 0 THEN ""
  ELSE IF Len(s) = 1 THEN s[1]
  ELSE s[1] \o ", " \o join(Tail(s))

----------------------------------------------------------------------------
(* validateOrder *)

minOrderSizeMutant == 2 + 3
minOrderSize == 10

IsValidMutant(errors) == Len(errors) <= 1
IsValid(errors) == Len(errors) = 0

\* the orders the balance check applies to (line 62)
balanceGateMutant(order) == Truthy(order.quantity) /\ Truthy(order.price)
balanceGate(order) ==
  order.side = "buy" /\ Truthy(order.quantity) /\ Truthy(order.price)

validateOrder(order, userBalance, currentPrice) ==
  LET notionalKnown == Truthy(order.quantity) /\ Truthy(order.price)
      notional == RMul(order.quantity, order.price)
      e1 == IF ~TruthyStr(order.symbol) THEN <<"Symbol is required">> ELSE <<>>
      e2 == IF ~TruthyStr(order.side) THEN <<"Order side is required">> ELSE <<>>
      e3 == IF ~Truthy(order.quantity) \/ RLe(order.quantity, R(0))
            THEN <<"Quantity must be greater than 0">> ELSE <<>>
      e4 == IF ~TruthyStr(order.type) THEN <<"Order type is required">> ELSE <<>>
      e5 == IF order.type = "limit" /\ (~Truthy(order.price) \/ RLe(order.price, R(0)))
            THEN <<"Price is required for limit orders">> ELSE <<>>
      e6 == IF balanceGate(order) /\ RGt(notional, userBalance)
            THEN <<"Insufficient balance. Required: $" \o toFixed(notional, 2)
                   \o ", Available: $" \o toFixed(userBalance, 2)>>
            ELSE <<>>
      e7 == IF notionalKnown /\ RLt(notional, R(minOrderSize))
            THEN <<"Order size must be at least $" \o ToString(minOrderSize)>> ELSE <<>>
      maxOrderSize == RMul(userBalance, <<1, 2>>)
      w1 == IF notionalKnown /\ RGt(notional, maxOrderSize)
            THEN <<"Large order size. Consider splitting into smaller orders.">> ELSE <<>>
      w2 == IF order.type = "market" /\ Truthy(currentPrice)
            THEN <<"Market orders execute at current market price and may have slippage">>
            ELSE <<>>
      deviation == RDiv(RAbs(RSub(order.price, currentPrice)), currentPrice)
      w3 == IF order.type = "limit" /\ Truthy(order.price) /\ Truthy(currentPrice)
               /\ RGt(deviation, <<1, 20>>)
            THEN <<"Limit price deviates significantly from current market price ("
                   \o toFixed(RMul(deviation, R(100)), 1) \o "%)">>
            ELSE <<>>
      errors == e1 \o e2 \o e3 \o e4 \o e5 \o e6 \o e7
  IN  [isValid |-> IsValid(errors), errors |-> errors, warnings |-> w1 \o w2 \o w3]

----------------------------------------------------------------------------
(* Orders, trades, execution results *)

feeRatePerMille == 1

calculateFeeMutant(quantity, price) == RMul(quantity, <<feeRatePerMille, 1000>>)
calculateFee(quantity, price) == RMul(RMul(quantity, price), <<feeRatePerMille, 1000>>)

\* `order-${Date.now()}-${++this.orderCounter}`: the clock and the counter
generateOrderId == <<now, orderCounter + 1>>

NewOrder(orderData, currentPrice) ==
  [id |-> generateOrderId,
   symbol |-> orderData.symbol,
   side |-> orderData.side,
   type |-> orderData.type,
   quantity |-> orderData.quantity,
   price |-> OrElse(orderData.price, currentPrice),
   status |-> "pending",
   timestamp |-> now,
   leverage |-> OrElse(orderData.leverage, R(1)),
   filledQuantity |-> Undef,
   averagePrice |-> Undef,
   filledAt |-> <<>>,
   cancelledAt |-> <<>>,
   rejectedReason |-> <<>>]

\* The Trade of a fill of `order` at `price` (id: a random string, not modelled)
NewTrade(order, price) ==
  [orderId |-> order.id,
   symbol |-> order.symbol,
   side |-> order.side,
   quantity |-> order.quantity,
   price |-> price,
   timestamp |-> now,
   fee |-> calculateFee(order.quantity, price),
   leverage |-> order.leverage]

\* OrderExecutionResult; absent optional fields are <<>>
Result(success, executedPrice, executedQuantity, error, trade) ==
  [success |-> success, orderId |-> <<>>, executedPrice |-> executedPrice,
   executedQuantity |-> executedQuantity, error |-> error, trade |-> trade]

Failure(error) == Result(FALSE, Undef, Undef, <<error>>, <<>>)

\* The value of a promise that has not settled
Pending == <<>>

\* `last`: op is the operation the caller invoked, at is "call" for the step
\* that runs the call up to its first pending await (or to its end) and
\* "return" for the step that settles a suspended call, arg are the
\* arguments of the call and value is what the caller has got: Pending, or
\* the result.
Event(op, at, arg, value) == [op |-> op, at |-> at, arg |-> arg, value |-> value]

NoEvent == Event("none", "none", <<>>, Pending)

----------------------------------------------------------------------------
(* updatePosition *)

\* String(x) of a number: an integer prints in decimal; a non-integer, which
\* no input here draws as a leverage, is told apart by its fraction
numberToString(x) ==
  IF x[2] = 1 THEN ToString(x[1]) ELSE ToString(x[1]) \o "/" \o ToString(x[2])

\* `${trade.symbol}-${trade.leverage}`
positionKeyMutant(trade) == trade.symbol
positionKey(trade) == trade.symbol \o "-" \o numberToString(trade.leverage)

\* trade.side === 'buy' ? trade.quantity : -trade.quantity (lines 246, 262)
tradeSizeMutant(trade) == trade.quantity
tradeSize(trade) == IF trade.side = "buy" THEN trade.quantity ELSE RNeg(trade.quantity)

createPosition(trade) ==
  [id |-> now,
   symbol |-> trade.symbol,
   side |-> trade.side,
   size |-> tradeSize(trade),
   entryPrice |-> trade.price,
   markPrice |-> trade.price,
   pnl |-> R(0),
   pnlPercent |-> R(0),
   unrealizedPnl |-> R(0),
   realizedPnl |-> R(0),
   leverage |-> OrElse(trade.leverage, R(1)),
   margin |-> RDiv(RMul(trade.quantity, trade.price), OrElse(trade.leverage, R(1))),
   timestamp |-> trade.timestamp]

\* the entry price after a fill that adds to the position (lines 267-269)
averageEntryMutant(currentSize, entryPrice, trade) ==
  RDiv(RAdd(entryPrice, trade.price), R(2))
averageEntry(currentSize, entryPrice, trade) ==
  LET totalValue == RAdd(RMul(RAbs(currentSize), entryPrice),
                         RMul(trade.quantity, trade.price))
      totalQuantity == RAdd(RAbs(currentSize), trade.quantity)
  IN  RDiv(totalValue, totalQuantity)

\* the profit per unit closed by a fill against the position (lines 275-277)
pnlPerUnitMutant(position, trade) ==
  IF trade.side = "buy"
  THEN RSub(trade.price, position.entryPrice)
  ELSE RSub(position.entryPrice, trade.price)
pnlPerUnit(position, trade) ==
  IF trade.side = "buy"
  THEN RSub(position.entryPrice, trade.price)
  ELSE RSub(trade.price, position.entryPrice)

changePosition(position, trade) ==
  LET currentSize == position.size
      newSize == RAdd(currentSize, tradeSize(trade))
  IN  IF RSign(currentSize) = RSign(tradeSize(trade)) \/ currentSize = R(0)
      THEN [position EXCEPT
              !.entryPrice = averageEntry(currentSize, position.entryPrice, trade),
              !.size = newSize,
              !.margin = RAdd(@, RDiv(RMul(trade.quantity, trade.price),
                                      OrElse(trade.leverage, R(1))))]
      ELSE LET closingQuantity == RMin(RAbs(currentSize), trade.quantity)
           IN  [position EXCEPT
                  !.realizedPnl = RAdd(@, RMul(RMul(pnlPerUnit(position, trade),
                                                    closingQuantity),
                                               position.leverage)),
                  !.size = newSize,
                  !.margin = IF RLt(RAbs(newSize), RAbs(currentSize))
                             THEN RDiv(RMul(RAbs(newSize), position.entryPrice),
                                       position.leverage)
                             ELSE @]

\* the positions map after updatePosition(trade)
updatePositionMutant(trade) ==
  LET k == positionKey(trade)
  IN  IF k \notin DOMAIN positions \/ inflight # {}
      THEN [x \in DOMAIN positions \cup {k} |->
              IF x = k THEN createPosition(trade) ELSE positions[x]]
      ELSE [positions EXCEPT ![k] = changePosition(positions[k], trade)]
updatePosition(trade) ==
  LET k == positionKey(trade)
  IN  IF k \notin DOMAIN positions
      THEN [x \in DOMAIN positions \cup {k} |->
              IF x = k THEN createPosition(trade) ELSE positions[x]]
      ELSE [positions EXCEPT ![k] = changePosition(positions[k], trade)]

\* Map insertion order of the position keys after updatePosition(trade)
updatePositionKeys(trade) ==
  IF positionKey(trade) \in DOMAIN positions THEN positionKeys
  ELSE Append(positionKeys, positionKey(trade))

----------------------------------------------------------------------------
(* executeMarketOrder, executeLimitOrder: the result each computes *)

\* executedPrice = currentPrice * (1 + slippage * slippageDirection),
\* slippage = Math.random() * 0.001
executedPriceMutant(order, currentPrice, slippage) ==
  RMul(currentPrice, RAdd(R(1), slippage))
executedPrice(order, currentPrice, slippage) ==
  LET slippageDirection == IF order.side = "buy" THEN R(1) ELSE R(-1)
  IN  RMul(currentPrice, RAdd(R(1), RMul(slippage, slippageDirection)))

executeMarketOrder(order, currentPrice, slippage) ==
  LET price == executedPrice(order, currentPrice, slippage)
      trade == NewTrade(order, price)
  IN  Result(TRUE, price, order.quantity, <<>>, <<trade>>)

shouldExecuteMutant(order, currentPrice) ==
  \/ order.side = "buy" /\ RLe(order.price, currentPrice)
  \/ order.side = "sell" /\ RLe(order.price, currentPrice)
shouldExecute(order, currentPrice) ==
  \/ order.side = "buy" /\ RGe(order.price, currentPrice)
  \/ order.side = "sell" /\ RLe(order.price, currentPrice)

executeLimitOrderMutant(order, currentPrice) ==
  IF ~shouldExecute(order, currentPrice)
  THEN Result(TRUE, Undef, R(0), <<>>, <<>>)
  ELSE Result(TRUE, currentPrice, order.quantity, <<>>, <<NewTrade(order, currentPrice)>>)
executeLimitOrder(order, currentPrice) ==
  IF ~shouldExecute(order, currentPrice)
  THEN Result(TRUE, Undef, R(0), <<>>, <<>>)
  ELSE Result(TRUE, order.price, order.quantity, <<>>, <<NewTrade(order, order.price)>>)

----------------------------------------------------------------------------
(* RiskManager *)

defaultLimits ==
  [maxMarginUtilization |-> <<4, 5>>,
   maxPositionSize |-> R(10000),
   maxDailyLoss |-> R(1000),
   maxConcurrentPositions |-> R(5),
   maxLeveragePerPosition |-> R(20)]

\* positions.reduce((sum, pos) => sum + f(pos), 0) for f a field, and for
\* f = Math.abs(pos.size * pos.markPrice)
RECURSIVE sumOf(_, _)
sumOf(list, field) ==
  IF list = <<>> THEN R(0)
  ELSE RAdd(sumOf(SubSeq(list, 1, Len(list) - 1), field), list[Len(list)][field])

RECURSIVE sumExposure(_)
sumExposure(list) ==
  IF list = <<>> THEN R(0)
  ELSE RAdd(sumExposure(SubSeq(list, 1, Len(list) - 1)),
            RAbs(RMul(list[Len(list)].size, list[Len(list)].markPrice)))

\* score += marginUtilization * 40 (line 91)
marginRiskMutant(marginUtilization) == RMul(RSub(R(1), marginUtilization), R(40))
marginRisk(marginUtilization) == RMul(marginUtilization, R(40))

\* Math.min(score, 100) (line 101)
capScoreMutant(score) == score
capScore(score) == RMin(score, R(100))

calculateRiskScore(marginUtilization, positionCount, pnlRatio) ==
  LET countRisk == RMul(RMin(RDiv(R(positionCount), limits.maxConcurrentPositions),
                             R(1)),
                        R(30))
      pnlRisk == IF RLt(pnlRatio, R(0))
                 THEN RMul(RMin(RMul(RAbs(pnlRatio), R(2)), R(1)), R(30))
                 ELSE R(0)
  IN  capScore(RAdd(RAdd(marginRisk(marginUtilization), countRisk), pnlRisk))

highLeverage(pos) == RGt(pos.leverage, R(10))
negativePnl(pos) == RLt(pos.unrealizedPnl, R(0))

\* positions.filter(pos => ...).length
highLeverageCount(list) == Cardinality({i \in 1 .. Len(list) : highLeverage(list[i])})
negativePnlCount(list) == Cardinality({i \in 1 .. Len(list) : negativePnl(list[i])})

calculateLiquidationRisk(list, accountBalance) ==
  LET highLeveragePositions == highLeverageCount(list)
      marginUtilization == RDiv(sumOf(list, "margin"), accountBalance)
  IN  IF RGt(marginUtilization, <<9, 10>>) \/ highLeveragePositions > 2
      THEN "high"
      ELSE IF \/ RGt(marginUtilization, <<7, 10>>)
              \/ highLeveragePositions > 0
              \/ negativePnlCount(list) > 3
           THEN "medium"
           ELSE "low"

calculateMaxPositionSize(accountBalance, marginUsed) ==
  LET availableMargin == RSub(accountBalance, marginUsed)
  IN  RMin(RMul(availableMargin, <<1, 2>>), limits.maxPositionSize)

overLeverage(pos) == RGt(pos.leverage, limits.maxLeveragePerPosition)

\* (pos.unrealizedPnl / pos.margin) * 100 < -50; with margin 0 the quotient
\* is -Infinity for a loss and NaN or Infinity otherwise
nearLiquidation(pos) ==
  IF pos.margin = R(0) THEN RLt(pos.unrealizedPnl, R(0))
  ELSE RLt(RMul(RDiv(pos.unrealizedPnl, pos.margin), R(100)), R(-50))

overLeverageCount(list) == Cardinality({i \in 1 .. Len(list) : overLeverage(list[i])})
nearLiquidationCount(list) ==
  Cardinality({i \in 1 .. Len(list) : nearLiquidation(list[i])})

generateWarnings(list, accountBalance) ==
  LET marginUtilization == RDiv(sumOf(list, "margin"), accountBalance)
      totalUnrealizedPnl == sumOf(list, "unrealizedPnl")
      w1 == IF RGt(marginUtilization, limits.maxMarginUtilization)
            THEN <<"High margin utilization: "
                   \o toFixed(RMul(marginUtilization, R(100)), 1) \o "%">>
            ELSE <<>>
      w2 == IF RGt(R(Len(list)), limits.maxConcurrentPositions)
            THEN <<"Too many concurrent positions: " \o ToString(Len(list))>>
            ELSE <<>>
      w3 == IF overLeverageCount(list) > 0
            THEN <<ToString(overLeverageCount(list))
                   \o " position(s) with high leverage (>"
                   \o numberToString(limits.maxLeveragePerPosition) \o "x)">>
            ELSE <<>>
      w4 == IF RLt(totalUnrealizedPnl, RNeg(limits.maxDailyLoss))
            THEN <<"Large unrealized losses: $" \o toFixed(RAbs(totalUnrealizedPnl), 2)>>
            ELSE <<>>
      w5 == IF nearLiquidationCount(list) > 0
            THEN <<ToString(nearLiquidationCount(list))
                   \o " position(s) at risk of liquidation">>
            ELSE <<>>
  IN  w1 \o w2 \o w3 \o w4 \o w5

\* the orders argument is passed on to generateWarnings, which does not read it
calculateRiskMetrics(list, accountBalance) ==
  LET totalExposure == sumExposure(list)
      marginUsed == sumOf(list, "margin")
      availableMargin == RSub(accountBalance, marginUsed)
      marginUtilization == RDiv(marginUsed, accountBalance)
      totalUnrealizedPnl == sumOf(list, "unrealizedPnl")
      totalRealizedPnl == sumOf(list, "realizedPnl")
  IN  [totalExposure |-> totalExposure,
       availableMargin |-> availableMargin,
       marginUsed |-> marginUsed,
       marginUtilization |-> marginUtilization,
       totalUnrealizedPnl |-> totalUnrealizedPnl,
       totalRealizedPnl |-> totalRealizedPnl,
       riskScore |-> calculateRiskScore(marginUtilization, Len(list),
                                        RDiv(totalUnrealizedPnl, accountBalance)),
       maxPositionSize |-> calculateMaxPositionSize(accountBalance, marginUsed),
       liquidationRisk |-> calculateLiquidationRisk(list, accountBalance),
       warnings |-> generateWarnings(list, accountBalance)]

\* Number.prototype.toLocaleString() of a non-negative integer in the en-US
\* locale: groups of three digits
RECURSIVE groupDigits(_)
groupDigits(i) ==
  IF i < 1000 THEN ToString(i)
  ELSE groupDigits(i \div 1000) \o ","
       \o (IF i % 1000 < 10 THEN "00" ELSE IF i % 1000 < 100 THEN "0" ELSE "")
       \o ToString(i % 1000)

toLocaleString(x) == IF x[2] = 1 /\ x[1] >= 0 THEN groupDigits(x[1]) ELSE numberToString(x)

\* allowed: reasons.length === 0 (line 219)
allowedMutant(reasons) == Len(reasons) <= 1
allowed(reasons) == Len(reasons) = 0

\* RiskManager.validateOrder (the engine has a validateOrder of its own)
RiskManager_validateOrder(order, list, accountBalance) ==
  IF ~Truthy(order.quantity) \/ ~Truthy(order.price)
  THEN [allowed |-> FALSE, reasons |-> <<"Invalid order parameters">>]
  ELSE LET orderValue == RMul(order.quantity, order.price)
           leverage == OrElse(order.leverage, R(1))
           requiredMargin == RDiv(orderValue, leverage)
           currentMarginUsed == sumOf(list, "margin")
           newMarginUtilization == RDiv(RAdd(currentMarginUsed, requiredMargin),
                                        accountBalance)
           r1 == IF RGt(newMarginUtilization, limits.maxMarginUtilization)
                 THEN <<"Would exceed margin limit ("
                        \o toFixed(RMul(newMarginUtilization, R(100)), 1) \o "%)">>
                 ELSE <<>>
           r2 == IF RGt(orderValue, limits.maxPositionSize)
                 THEN <<"Position size too large (max: $"
                        \o toLocaleString(limits.maxPositionSize) \o ")">>
                 ELSE <<>>
           r3 == IF RGe(R(Len(list)), limits.maxConcurrentPositions)
                 THEN <<"Too many positions (max: "
                        \o numberToString(limits.maxConcurrentPositions) \o ")">>
                 ELSE <<>>
           r4 == IF RGt(leverage, limits.maxLeveragePerPosition)
                 THEN <<"Leverage too high (max: "
                        \o numberToString(limits.maxLeveragePerPosition) \o "x)">>
                 ELSE <<>>
           r5 == IF RGt(requiredMargin, RSub(accountBalance, currentMarginUsed))
                 THEN <<"Insufficient available margin">>
                 ELSE <<>>
           reasons == r1 \o r2 \o r3 \o r4 \o r5
       IN  [allowed |-> allowed(reasons), reasons |-> reasons]

----------------------------------------------------------------------------
(* The store (src/stores/trading-store.ts): its state.  A string the user  *)
(* types is the sequence of its characters.  positions and orders hold the *)
(* engine's Position and Order objects themselves, so they are kept as the *)
(* position keys and the order ids; trades is either the store's own empty *)
(* array or the engine's trades array.                                     *)

initialState ==
  [selectedMarket |-> "BTC-PERP",
   marketData |-> <<>>,
   positions |-> <<>>,
   orders |-> <<>>,
   trades |-> "own",
   selectedLeverage |-> R(2),
   orderQuantity |-> <<>>,
   orderPrice |-> <<>>,
   orderType |-> "market",
   isPlacingOrder |-> FALSE,
   orderError |-> <<>>]

\* NaN is falsy and fails every comparison, as undefined does; the engine
\* tells them apart nowhere
NaN == Undef

Digits == {"0", "1", "2", "3", "4", "5", "6", "7", "8", "9"}

digit(c) ==
  CASE c = "0" -> 0 [] c = "1" -> 1 [] c = "2" -> 2 [] c = "3" -> 3 [] c = "4" -> 4
    [] c = "5" -> 5 [] c = "6" -> 6 [] c = "7" -> 7 [] c = "8" -> 8 [] c = "9" -> 9

\* the number of leading decimal digits of a string
RECURSIVE leadingDigits(_)
leadingDigits(chars) ==
  IF chars = <<>> \/ Head(chars) \notin Digits THEN 0
  ELSE 1 + leadingDigits(Tail(chars))

\* the value of a string of decimal digits
RECURSIVE digitsValue(_)
digitsValue(chars) ==
  IF chars = <<>> THEN 0
  ELSE 10 * digitsValue(SubSeq(chars, 1, Len(chars) - 1)) + digit(chars[Len(chars)])

\* parseFloat of a string of digits, "." and other characters (no sign, no
\* exponent, no leading blanks): the longest prefix that is a decimal
\* literal, NaN when there is none
parseFloat(chars) ==
  LET n == leadingDigits(chars)
      rest == SubSeq(chars, n + 1, Len(chars))
      m == IF rest # <<>> /\ Head(rest) = "." THEN leadingDigits(Tail(rest)) ELSE 0
  IN  IF n = 0 /\ m = 0 THEN NaN
      ELSE RAdd(R(digitsValue(SubSeq(chars, 1, n))),
                Norm(digitsValue(SubSeq(rest, 2, m + 1)), Pow10(m)))

----------------------------------------------------------------------------
(* The engine's operations.  An async call runs synchronously up to its    *)
(* first pending await; `inflight` holds the suspended executeOrder calls  *)
(* with their local variables: pc = "updatePosition" is executeMarketOrder *)
(* or executeLimitOrder suspended at `await this.updatePosition(trade)`    *)
(* (updatePosition itself has no await and has already run), pc =          *)
(* "execute" is executeOrder suspended at `await this.execute...Order()`.  *)

Init ==
  /\ orders = <<>>
  /\ positions = <<>>
  /\ positionKeys = <<>>
  /\ trades = <<>>
  /\ orderCounter = 0
  /\ now = 0
  /\ inflight = {}
  /\ last = NoEvent
  /\ input = <<>>
  /\ output = <<>>
  /\ limits = defaultLimits
  /\ store = initialState

\* executeOrder from its call to its first suspension (lines 101-138);
\* `slippage` is the value of Math.random() * 0.001, `op` and `arg` name the
\* call the result goes back to (executeOrder itself, or closePosition)
executeOrder(orderData, userBalance, currentPrice, slippage, op, arg) ==
  LET validation == validateOrder(orderData, userBalance, currentPrice)
      order == NewOrder(orderData, currentPrice)
      result == IF order.type = "market"
                THEN executeMarketOrder(order, currentPrice, slippage)
                ELSE executeLimitOrder(order, currentPrice)
  IN  /\ UNCHANGED <<input, output, limits>>
      /\ IF op = "placeOrder" THEN TRUE ELSE UNCHANGED store
      /\ IF ~validation.isValid
         THEN /\ last' = Event(op, "call", arg, Failure(join(validation.errors)))
              /\ UNCHANGED <<orders, positions, positionKeys, trades, orderCounter,
                             now, inflight>>
         ELSE /\ orderCounter' = orderCounter + 1
              /\ orders' = [x \in DOMAIN orders \cup {order.id} |->
                              IF x = order.id THEN order ELSE orders[x]]
              /\ IF result.trade # <<>>
                 THEN /\ trades' = Append(trades, result.trade[1])
                      /\ positions' = updatePosition(result.trade[1])
                      /\ positionKeys' = updatePositionKeys(result.trade[1])
                 ELSE UNCHANGED <<trades, positions, positionKeys>>
              /\ inflight' = inflight \cup
                   {[orderId |-> order.id,
                     pc |-> IF result.trade # <<>> THEN "updatePosition" ELSE "execute",
                     result |-> result,
                     op |-> op,
                     arg |-> arg]}
              /\ last' = Event(op, "call", arg, Pending)
              /\ UNCHANGED now

\* executeMarketOrder / executeLimitOrder resumed after `await updatePosition`:
\* each returns its result to executeOrder's await (lines 184-191, 226-233)
executeResume(f) ==
  /\ f \in inflight
  /\ f.pc = "updatePosition"
  /\ inflight' = (inflight \ {f}) \cup {[f EXCEPT !.pc = "execute"]}
  /\ last' = NoEvent
  /\ UNCHANGED <<orders, positions, positionKeys, trades, orderCounter, now>>
  /\ UNCHANGED pure

\* executeOrder resumed after `await this.execute...Order` (lines 140-152)
executeOrderResume(f) ==
  /\ f \in inflight
  /\ f.pc = "execute"
  /\ orders' = [orders EXCEPT ![f.orderId] =
                  IF f.result.success
                  THEN [@ EXCEPT !.status = "filled",
                                 !.filledQuantity = f.result.executedQuantity,
                                 !.averagePrice = f.result.executedPrice,
                                 !.filledAt = <<now>>]
                  ELSE [@ EXCEPT !.status = "rejected",
                                 !.rejectedReason = f.result.error]]
  /\ inflight' = inflight \ {f}
  /\ last' = Event(f.op, "return", f.arg, [f.result EXCEPT !.orderId = <<f.orderId>>])
  /\ UNCHANGED <<positions, positionKeys, trades, orderCounter, now>>
  /\ UNCHANGED pure

cancelOrderMutant(orderId) ==
  /\ UNCHANGED pure
  /\ IF orderId \notin DOMAIN orders \/ orders[orderId].status \notin {"pending", "filled"}
     THEN /\ last' = Event("cancelOrder", "call", <<orderId>>, FALSE)
          /\ UNCHANGED <<orders, positions, positionKeys, trades, orderCounter, now,
                         inflight>>
     ELSE /\ orders' = [orders EXCEPT ![orderId] =
                          [@ EXCEPT !.status = "cancelled", !.cancelledAt = <<now>>]]
          /\ last' = Event("cancelOrder", "call", <<orderId>>, TRUE)
          /\ UNCHANGED <<positions, positionKeys, trades, orderCounter, now, inflight>>
cancelOrder(orderId) ==
  /\ UNCHANGED pure
  /\ IF orderId \notin DOMAIN orders \/ orders[orderId].status # "pending"
     THEN /\ last' = Event("cancelOrder", "call", <<orderId>>, FALSE)
          /\ UNCHANGED <<orders, positions, positionKeys, trades, orderCounter, now,
                         inflight>>
     ELSE /\ orders' = [orders EXCEPT ![orderId] =
                          [@ EXCEPT !.status = "cancelled", !.cancelledAt = <<now>>]]
          /\ last' = Event("cancelOrder", "call", <<orderId>>, TRUE)
          /\ UNCHANGED <<positions, positionKeys, trades, orderCounter, now, inflight>>

\* Array.from(this.positions.values()).find(p => p.id === positionId):
\* the keys, in Map insertion order, whose position has that id
RECURSIVE findKeys(_, _)
findKeys(keys, positionId) ==
  IF keys = <<>> THEN <<>>
  ELSE (IF positions[Head(keys)].id = positionId THEN <<Head(keys)>> ELSE <<>>)
       \o findKeys(Tail(keys), positionId)

closingOrder(position) ==
  [symbol |-> position.symbol,
   side |-> IF position.side = "buy" THEN "sell" ELSE "buy",
   type |-> "market",
   quantity |-> RAbs(position.size),
   price |-> Undef,
   leverage |-> position.leverage]

closePosition(positionId, currentPrice, slippage) ==
  LET found == findKeys(positionKeys, positionId)
  IN  IF found = <<>>
      THEN /\ last' = Event("closePosition", "call", <<positionId, currentPrice>>,
                            Failure("Position not found"))
           /\ UNCHANGED <<orders, positions, positionKeys, trades, orderCounter,
                          now, inflight>>
           /\ UNCHANGED pure
      ELSE executeOrder(closingOrder(positions[found[1]]), Infinity, currentPrice,
                        slippage, "closePosition", <<positionId, currentPrice>>)

\* Array.from(this.positions.values())
getPositions == [i \in 1 .. Len(positionKeys) |-> positions[positionKeys[i]]]

\* RiskCheckResult; absent optional fields are <<>>
RiskCheckResult(isAllowed, reason, suggestedMaxSize) ==
  [allowed |-> isAllowed, reason |-> reason, suggestedMaxSize |-> suggestedMaxSize]

\* the total exposure allowed for a balance (line 321)
maxExposureMutant(userBalance) == RMul(userBalance, R(5))
maxExposure(userBalance) == RMul(userBalance, R(10))

\* the result of checkRisk
riskCheck(order, userBalance, currentPositions) ==
  IF ~Truthy(order.quantity) \/ ~Truthy(order.price)
  THEN RiskCheckResult(FALSE, <<"Invalid order parameters">>, Undef)
  ELSE LET orderValue == RMul(order.quantity, order.price)
           leverage == OrElse(order.leverage, R(1))
           margin == RDiv(orderValue, leverage)
           totalExposure == sumExposure(currentPositions)
           newExposure == RAdd(totalExposure, orderValue)
       IN  IF RGt(margin, RMul(userBalance, <<4, 5>>))
           THEN RiskCheckResult(FALSE, <<"Insufficient margin">>,
                                RDiv(RMul(RMul(userBalance, <<4, 5>>), leverage),
                                     order.price))
           ELSE IF RGt(newExposure, maxExposure(userBalance))
                THEN RiskCheckResult(FALSE, <<"Maximum exposure limit reached">>, Undef)
                ELSE RiskCheckResult(TRUE, <<>>, Undef)

\* checkRisk: synchronous, it returns to its caller in the step that calls it
checkRisk(order, userBalance, currentPositions) ==
  /\ last' = Event("checkRisk", "call", <<order, userBalance, currentPositions>>,
                   riskCheck(order, userBalance, currentPositions))
  /\ UNCHANGED <<orders, positions, positionKeys, trades, orderCounter, now, inflight>>
  /\ UNCHANGED pure

\* Date.now() advances
Tick ==
  /\ now < MaxNow
  /\ now' = now + 1
  /\ last' = NoEvent
  /\ UNCHANGED <<orders, positions, positionKeys, trades, orderCounter, inflight>>
  /\ UNCHANGED pure

\* this.limits = { ...this.limits, ...newLimits }: newLimits carries some of
\* the fields
setRiskLimits(newLimits) ==
  /\ limits' = [k \in DOMAIN limits \cup DOMAIN newLimits |->
                  IF k \in DOMAIN newLimits THEN newLimits[k] ELSE limits[k]]
  /\ last' = Event("setRiskLimits", "call", <<newLimits>>, Pending)
  /\ UNCHANGED <<orders, positions, positionKeys, trades, orderCounter, now, inflight>>
  /\ UNCHANGED <<input, output, store>>

\* getRiskLimits returns { ...this.limits }. `output` is the reference the
\* caller holds: object tells which object it refers to (a fresh "copy", or
\* the manager's own "limits"), fields are the fields of a copy.
getRiskLimitsMutant ==
  /\ output' = [object |-> "limits", fields |-> <<>>]
  /\ last' = Event("getRiskLimits", "call", <<>>, limits)
  /\ UNCHANGED <<orders, positions, positionKeys, trades, orderCounter, now, inflight>>
  /\ UNCHANGED <<input, limits, store>>
getRiskLimits ==
  /\ output' = [object |-> "copy", fields |-> limits]
  /\ last' = Event("getRiskLimits", "call", <<>>, limits)
  /\ UNCHANGED <<orders, positions, positionKeys, trades, orderCounter, now, inflight>>
  /\ UNCHANGED <<input, limits, store>>

\* the caller assigns to a field of the object getRiskLimits returned
writeReturned(field, value) ==
  /\ output # <<>>
  /\ IF output.object = "limits"
     THEN limits' = [limits EXCEPT ![field] = value] /\ UNCHANGED output
     ELSE output' = [output EXCEPT !.fields[field] = value] /\ UNCHANGED limits
  /\ last' = NoEvent
  /\ UNCHANGED <<orders, positions, positionKeys, trades, orderCounter, now, inflight>>
  /\ UNCHANGED <<input, store>>

----------------------------------------------------------------------------
(* The store's actions.  A setter is one step.  placeOrder and the store's *)
(* closePosition run up to `await tradingEngine...` in the step that calls *)
(* the engine, and their remainder runs in a step of its own once the      *)
(* engine's promise has settled: `last` then holds the result delivered.   *)

engineUnchanged ==
  UNCHANGED <<orders, positions, positionKeys, trades, orderCounter, now, inflight>>

setter(field, value) ==
  /\ store' = [store EXCEPT ![field] = value]
  /\ last' = NoEvent
  /\ engineUnchanged
  /\ UNCHANGED <<input, output, limits>>

setSelectedMarket(market) == setter("selectedMarket", market)

\* marketData: { ...state.marketData, [symbol]: data }
setMarketData(symbol, data) ==
  setter("marketData",
         [x \in DOMAIN store.marketData \cup {symbol} |->
            IF x = symbol THEN data ELSE store.marketData[x]])

setOrderQuantity(quantity) == setter("orderQuantity", quantity)

setOrderPrice(price) == setter("orderPrice", price)

setOrderType(type) == setter("orderType", type)

\* state.marketData[state.selectedMarket]?.price || 0
selectedPrice(state) ==
  IF state.selectedMarket \in DOMAIN state.marketData
  THEN OrElse(state.marketData[state.selectedMarket].price, R(0))
  ELSE R(0)

\* Array.from(this.orders.values()): the ids in the order of their insertion
getOrders ==
  [i \in 1 .. orderCounter |-> CHOOSE id \in DOMAIN orders : id[2] = i]

\* the three arrays the store takes from the engine
refreshed(state) ==
  [state EXCEPT !.orders = getOrders, !.positions = positionKeys, !.trades = "engine"]

orderRequest(state, side) ==
  [symbol |-> state.selectedMarket,
   side |-> side,
   type |-> state.orderType,
   quantity |-> parseFloat(state.orderQuantity),
   price |-> IF state.orderType = "limit" THEN parseFloat(state.orderPrice) ELSE Undef,
   leverage |-> state.selectedLeverage]

\* placeOrder up to `await tradingEngine.executeOrder(...)` (lines 112-134)
placeOrder(side, slippage) ==
  /\ store' = [store EXCEPT !.isPlacingOrder = TRUE, !.orderError = <<>>]
  /\ executeOrder(orderRequest(store, side), R(10000), selectedPrice(store), slippage,
                  "placeOrder",
                  <<orderRequest(store, side), R(10000), selectedPrice(store)>>)

\* the engine's promise has settled and the store has not yet taken the result
delivered(op) ==
  /\ last.op = op
  /\ last.at \in {"call", "return"}
  /\ last.value # Pending

\* placeOrder after the await (lines 136-157)
placeOrderResume ==
  /\ delivered("placeOrder")
  /\ store' = IF last.value.success /\ last.value.orderId # <<>>
              THEN [refreshed(store) EXCEPT !.orderQuantity = <<>>,
                                            !.orderPrice = <<>>,
                                            !.isPlacingOrder = FALSE]
              ELSE [store EXCEPT !.orderError =
                                   IF TruthyStr(last.value.error) THEN last.value.error
                                   ELSE <<"Order execution failed">>,
                                 !.isPlacingOrder = FALSE]
  /\ last' = Event("placeOrder", "done", last.arg, last.value)
  /\ engineUnchanged
  /\ UNCHANGED <<input, output, limits>>

\* the store's closePosition up to `await tradingEngine.closePosition(...)`
\* (lines 182-188)
store_closePosition(positionId, slippage) ==
  closePosition(positionId, selectedPrice(store), slippage)

\* the store's closePosition after the await (lines 190-201)
store_closePositionResume ==
  /\ delivered("closePosition")
  /\ store' = IF last.value.success THEN refreshed(store) ELSE store
  /\ last' = Event("closePosition", "done", last.arg, last.value)
  /\ engineUnchanged
  /\ UNCHANGED <<input, output, limits>>

refreshPositions ==
  /\ store' = refreshed(store)
  /\ last' = NoEvent
  /\ engineUnchanged
  /\ UNCHANGED <<input, output, limits>>

----------------------------------------------------------------------------
(* Inputs *)

Sides == {"buy", "sell"}
CurrentPrices == {R(10), R(20)}
LimitPrices == {R(15)}

\* order data that validateOrder refuses, for one reason or for several
InvalidOrders ==
  {[symbol |-> "BTC", side |-> "sell", type |-> "market", quantity |-> R(0),
    price |-> Undef, leverage |-> Undef],
   [symbol |-> "", side |-> "", type |-> "limit", quantity |-> R(1),
    price |-> R(5), leverage |-> Undef]}

\* Spec: one symbol at the default leverage, one unit per order
OrderData ==
  [symbol : {"BTC"}, side : Sides, type : {"market"}, quantity : {R(1)},
   price : {Undef}, leverage : {Undef}]
  \cup
  [symbol : {"BTC"}, side : Sides, type : {"limit"}, quantity : {R(1)},
   price : LimitPrices, leverage : {Undef}]
  \cup InvalidOrders

\* executeOrder calls <<orderData, userBalance, currentPrice>> of Spec: every
\* order with a balance of $1000, and a buy limit order with a balance of $12
\* that does not cover it
ExecuteCalls ==
  (OrderData \X {R(1000)} \X CurrentPrices)
  \cup
  ({od \in OrderData : od.type = "limit" /\ od.side = "buy" /\ od.symbol = "BTC"}
     \X {R(12)} \X CurrentPrices)

\* SpecLedger: fills of one, two or three units on one key at leverage 2
LedgerOrderData ==
  [symbol : {"BTC"}, side : Sides, type : {"market"}, quantity : {R(1), R(2), R(3)},
   price : {Undef}, leverage : {R(2)}]
  \cup
  [symbol : {"BTC"}, side : Sides, type : {"limit"}, quantity : {R(1)},
   price : LimitPrices, leverage : {R(2)}]

\* ids a caller may name: the ones issued so far and one that never was
OrderIds == DOMAIN orders \cup {<<0, 0>>}
PositionIds == {positions[k].id : k \in DOMAIN positions} \cup {MaxNow + 1}

----------------------------------------------------------------------------
(* Specifications *)

\* Spec: every operation of the engine; calls interleave at the await points.
Next ==
  \/ /\ orderCounter < MaxOrders
     /\ Cardinality(inflight) < MaxInflight
     /\ \E call \in ExecuteCalls :
          executeOrder(call[1], call[2], call[3], R(0), "executeOrder", call)
  \/ /\ orderCounter < MaxOrders
     /\ Cardinality(inflight) < MaxInflight
     /\ \E id \in PositionIds, c \in CurrentPrices : closePosition(id, c, R(0))
  \/ \E f \in inflight : executeResume(f)
  \/ \E f \in inflight : executeOrderResume(f)
  \/ \E id \in OrderIds : cancelOrder(id)

Spec == Init /\ [][Next]_vars

\* SpecLedger: one caller that awaits each call before it makes the next;
\* longer sequences of fills on one position key.
NextLedger ==
  \/ /\ orderCounter < MaxOrdersDeep
     /\ inflight = {}
     /\ \E od \in LedgerOrderData, c \in CurrentPrices :
          executeOrder(od, R(1000), c, R(0), "executeOrder", <<od, R(1000), c>>)
  \/ /\ orderCounter < MaxOrdersDeep
     /\ inflight = {}
     /\ \E id \in PositionIds, c \in CurrentPrices : closePosition(id, c, R(0))
  \/ \E f \in inflight : executeResume(f)
  \/ \E f \in inflight : executeOrderResume(f)

SpecLedger == Init /\ [][NextLedger]_vars

\* SpecValidate: validateOrder as a function of its arguments
ValidateInputs ==
  [fn : {"validateOrder"},
   order : [symbol : {"", "BTC"}, side : {"", "buy", "sell"},
            type : {"", "market", "limit"},
            quantity : {Undef, R(-1), R(0), R(1), R(3)},
            price : {Undef, R(0), R(5), R(10), R(20)},
            leverage : {Undef}],
   userBalance : {R(0), R(12), R(1000), Infinity},
   currentPrice : {R(0), R(10), R(20)}]

InitValidate ==
  /\ orders = <<>>
  /\ positions = <<>>
  /\ positionKeys = <<>>
  /\ trades = <<>>
  /\ orderCounter = 0
  /\ now = 0
  /\ inflight = {}
  /\ last = NoEvent
  /\ input \in ValidateInputs
  /\ output = <<>>
  /\ limits = defaultLimits
  /\ store = initialState

callValidateOrder ==
  /\ input # <<>>
  /\ input.fn = "validateOrder"
  /\ output = <<>>
  /\ output' = validateOrder(input.order, input.userBalance, input.currentPrice)
  /\ UNCHANGED <<engine, input, limits, store>>

SpecValidate == InitValidate /\ [][callValidateOrder]_vars

\* SpecKeys: market orders on two symbols, at the default leverage and at
\* leverage 2, at one price; one caller that awaits each call.
KeysOrderData ==
  [symbol : {"BTC", "ETH"}, side : Sides, type : {"market"}, quantity : {R(1)},
   price : {Undef}, leverage : {Undef, R(2)}]

NextKeys ==
  \/ /\ orderCounter < MaxOrdersDeep
     /\ inflight = {}
     /\ \E od \in KeysOrderData :
          executeOrder(od, R(1000), R(10), R(0), "executeOrder", <<od, R(1000), R(10)>>)
  \/ /\ orderCounter < MaxOrdersDeep
     /\ inflight = {}
     /\ \E id \in PositionIds : closePosition(id, R(10), R(0))
  \/ \E f \in inflight : executeResume(f)
  \/ \E f \in inflight : executeOrderResume(f)

SpecKeys == Init /\ [][NextKeys]_vars

\* SpecMarket: market orders under slippage; Math.random() * 0.001 is any
\* number in [0, 0.001), of which the least, the middle and one near the upper
\* end are drawn. One caller that awaits each call.
Slippages == {R(0), <<1, 2000>>, <<9, 10000>>}

MarketOrderData ==
  [symbol : {"BTC"}, side : Sides, type : {"market"}, quantity : {R(1), R(3)},
   price : {Undef}, leverage : {Undef}]

NextMarket ==
  \/ /\ orderCounter < MaxOrders
     /\ inflight = {}
     /\ \E od \in MarketOrderData, c \in CurrentPrices, slippage \in Slippages :
          executeOrder(od, R(1000), c, slippage, "executeOrder", <<od, R(1000), c>>)
  \/ /\ orderCounter < MaxOrders
     /\ inflight = {}
     /\ \E id \in PositionIds, c \in CurrentPrices, slippage \in Slippages :
          closePosition(id, c, slippage)
  \/ \E f \in inflight : executeResume(f)
  \/ \E f \in inflight : executeOrderResume(f)

SpecMarket == Init /\ [][NextMarket]_vars

\* SpecLimit: limit orders below, at and above the current price; one caller
\* that awaits each call.
LimitOrderData ==
  [symbol : {"BTC"}, side : Sides, type : {"limit"}, quantity : {R(1), R(2)},
   price : {R(10), R(15)}, leverage : {Undef}]

NextLimit ==
  \/ /\ orderCounter < MaxOrders
     /\ inflight = {}
     /\ \E od \in LimitOrderData, c \in CurrentPrices :
          executeOrder(od, R(1000), c, R(0), "executeOrder", <<od, R(1000), c>>)
  \/ /\ orderCounter < MaxOrders
     /\ inflight = {}
     /\ \E id \in PositionIds, c \in CurrentPrices : closePosition(id, c, R(0))
  \/ \E f \in inflight : executeResume(f)
  \/ \E f \in inflight : executeOrderResume(f)

SpecLimit == Init /\ [][NextLimit]_vars

\* SpecRisk: calculateRiskMetrics as a function of the positions, the account
\* balance and the limits in force
RiskPositions ==
  {[size |-> R(1), markPrice |-> R(10), margin |-> R(2), unrealizedPnl |-> R(0),
    realizedPnl |-> R(0), leverage |-> R(5)],
   [size |-> R(-1), markPrice |-> R(20), margin |-> R(5), unrealizedPnl |-> R(-3),
    realizedPnl |-> R(1), leverage |-> R(20)],
   [size |-> R(2), markPrice |-> R(10), margin |-> R(20), unrealizedPnl |-> R(1),
    realizedPnl |-> R(0), leverage |-> R(1)],
   [size |-> R(1), markPrice |-> R(5), margin |-> R(3), unrealizedPnl |-> R(-10),
    realizedPnl |-> R(0), leverage |-> R(25)]}

PositionLists == UNION {[1 .. n -> RiskPositions] : n \in 0 .. MaxPositions}

RiskInputs ==
  [fn : {"calculateRiskMetrics"}, positions : PositionLists,
   accountBalance : {R(10), R(100)}]

NewLimits ==
  {[maxConcurrentPositions |-> R(2)],
   [maxConcurrentPositions |-> R(1), maxLeveragePerPosition |-> R(10)]}

InitRisk ==
  /\ orders = <<>>
  /\ positions = <<>>
  /\ positionKeys = <<>>
  /\ trades = <<>>
  /\ orderCounter = 0
  /\ now = 0
  /\ inflight = {}
  /\ last = NoEvent
  /\ input \in RiskInputs
  /\ output = <<>>
  /\ limits = defaultLimits
  /\ store = initialState

callCalculateRiskMetrics ==
  /\ input # <<>>
  /\ input.fn = "calculateRiskMetrics"
  /\ output = <<>>
  /\ output' = calculateRiskMetrics(input.positions, input.accountBalance)
  /\ UNCHANGED <<engine, input, limits, store>>

NextRisk ==
  \/ output = <<>> /\ \E newLimits \in NewLimits : setRiskLimits(newLimits)
  \/ callCalculateRiskMetrics

SpecRisk == InitRisk /\ [][NextRisk]_vars

\* SpecRiskOrder: RiskManager.validateOrder as a function of the order, the
\* positions, the account balance and the limits in force
RiskOrders ==
  [quantity : {Undef, R(0), R(1), R(3)},
   price : {Undef, R(0), R(10), R(5000)},
   leverage : {Undef, R(2), R(25)}]

RiskOrderInputs ==
  [fn : {"RiskManager.validateOrder"}, order : RiskOrders, positions : PositionLists,
   accountBalance : {R(10), R(100)}]

InitRiskOrder ==
  /\ orders = <<>>
  /\ positions = <<>>
  /\ positionKeys = <<>>
  /\ trades = <<>>
  /\ orderCounter = 0
  /\ now = 0
  /\ inflight = {}
  /\ last = NoEvent
  /\ input \in RiskOrderInputs
  /\ output = <<>>
  /\ limits = defaultLimits
  /\ store = initialState

callRiskManagerValidateOrder ==
  /\ input # <<>>
  /\ input.fn = "RiskManager.validateOrder"
  /\ output = <<>>
  /\ output' = RiskManager_validateOrder(input.order, input.positions,
                                         input.accountBalance)
  /\ UNCHANGED <<engine, input, limits, store>>

NextRiskOrder ==
  \/ output = <<>> /\ \E newLimits \in NewLimits : setRiskLimits(newLimits)
  \/ callRiskManagerValidateOrder

SpecRiskOrder == InitRiskOrder /\ [][NextRiskOrder]_vars

\* SpecCheckRisk: market orders of one caller that awaits each call, and
\* checkRisk on the engine's positions in between
CheckedOrders ==
  [quantity : {Undef, R(1), R(3)}, price : {R(10)}, leverage : {Undef, R(25)}]

CheckBalances == {R(1), R(10), R(1000)}

CheckRiskOrderData ==
  [symbol : {"BTC"}, side : Sides, type : {"market"}, quantity : {R(1), R(10)},
   price : {Undef}, leverage : {Undef}]

NextCheckRisk ==
  \/ /\ orderCounter < MaxOrders
     /\ inflight = {}
     /\ \E od \in CheckRiskOrderData :
          executeOrder(od, R(1000), R(10), R(0), "executeOrder", <<od, R(1000), R(10)>>)
  \/ \E f \in inflight : executeResume(f)
  \/ \E f \in inflight : executeOrderResume(f)
  \/ /\ inflight = {}
     /\ \E order \in CheckedOrders, userBalance \in CheckBalances :
          checkRisk(order, userBalance, getPositions)

SpecCheckRisk == Init /\ [][NextCheckRisk]_vars

\* SpecLimits: setRiskLimits and getRiskLimits in any order, and a caller that
\* writes to the objects getRiskLimits returns; one call supplies a field
\* with the value undefined
LimitChanges ==
  NewLimits \cup
  {[maxDailyLoss |-> R(500), maxMarginUtilization |-> <<1, 2>>],
   [maxConcurrentPositions |-> R(5)],
   [maxPositionSize |-> Undef]}

NextLimits ==
  \/ \E newLimits \in LimitChanges : setRiskLimits(newLimits)
  \/ getRiskLimits
  \/ \E field \in {"maxPositionSize", "maxConcurrentPositions"} :
       writeReturned(field, R(1))

SpecLimits == Init /\ [][NextLimits]_vars

\* SpecRace: market orders on one position key whose calls interleave at the
\* await points
RaceOrderData ==
  [symbol : {"BTC"}, side : Sides, type : {"market"}, quantity : {R(1), R(2)},
   price : {Undef}, leverage : {R(2)}]

NextRace ==
  \/ /\ orderCounter < MaxOrders
     /\ Cardinality(inflight) < MaxInflight
     /\ \E od \in RaceOrderData, c \in CurrentPrices :
          executeOrder(od, R(1000), c, R(0), "executeOrder", <<od, R(1000), c>>)
  \/ \E f \in inflight : executeResume(f)
  \/ \E f \in inflight : executeOrderResume(f)

SpecRace == Init /\ [][NextRace]_vars

\* SpecTrades: one caller that awaits each call; orders with and without a
\* leverage, market and limit, closePosition and cancelOrder
TradesOrderData ==
  [symbol : {"BTC"}, side : Sides, type : {"market"}, quantity : {R(1), R(2)},
   price : {Undef}, leverage : {Undef, R(2)}]
  \cup
  [symbol : {"BTC"}, side : Sides, type : {"limit"}, quantity : {R(1)},
   price : LimitPrices, leverage : {Undef, R(2)}]

NextTrades ==
  \/ /\ orderCounter < MaxOrders
     /\ inflight = {}
     /\ \E od \in TradesOrderData :
          executeOrder(od, R(1000), R(10), R(0), "executeOrder",
                       <<od, R(1000), R(10)>>)
  \/ /\ orderCounter < MaxOrders
     /\ inflight = {}
     /\ \E id \in PositionIds : closePosition(id, R(20), R(0))
  \/ \E f \in inflight : executeResume(f)
  \/ \E f \in inflight : executeOrderResume(f)
  \/ \E id \in OrderIds : cancelOrder(id)

SpecTrades == Init /\ [][NextTrades]_vars

\* SpecClock: one caller, two symbols, and the clock: Date.now() may or may
\* not have advanced between two calls
ClockOrderData ==
  [symbol : {"BTC", "ETH"}, side : {"buy"}, type : {"market"}, quantity : {R(1), R(2)},
   price : {Undef}, leverage : {R(2)}]

NextClock ==
  \/ /\ orderCounter < MaxOrdersDeep
     /\ inflight = {}
     /\ \E od \in ClockOrderData :
          executeOrder(od, R(1000), R(10), R(0), "executeOrder",
                       <<od, R(1000), R(10)>>)
  \/ /\ orderCounter < MaxOrdersDeep
     /\ inflight = {}
     /\ \E id \in PositionIds : closePosition(id, R(10), R(0))
  \/ \E f \in inflight : executeResume(f)
  \/ \E f \in inflight : executeOrderResume(f)
  \/ Tick

SpecClock == Init /\ [][NextClock]_vars

\* SpecStore: the user of the store: one placeOrder or closePosition at a
\* time; no setter runs between the settling of the engine's promise and the
\* rest of the action that awaits it (a microtask).
Markets == {"BTC-PERP", "ETH-PERP"}
MarketPrices == {<<"BTC-PERP", R(20)>>, <<"ETH-PERP", R(5)>>}
Typed == {<<>>, <<"1", ".", "5">>}
TypedPrices == {<<"1", "5">>}

storeIdle ==
  /\ inflight = {}
  /\ ~delivered("placeOrder")
  /\ ~delivered("closePosition")

\* the ids of the positions the store shows
ShownPositionIds == {positions[store.positions[i]].id : i \in 1 .. Len(store.positions)}

NextStore ==
  \/ storeIdle /\ \E market \in Markets : setSelectedMarket(market)
  \/ storeIdle /\ \E mp \in MarketPrices : setMarketData(mp[1], [price |-> mp[2]])
  \/ storeIdle /\ \E quantity \in Typed : setOrderQuantity(quantity)
  \/ storeIdle /\ \E price \in TypedPrices : setOrderPrice(price)
  \/ storeIdle /\ \E type \in {"market", "limit"} : setOrderType(type)
  \/ storeIdle /\ refreshPositions
  \/ /\ storeIdle
     /\ orderCounter < MaxOrders
     /\ \E side \in Sides : placeOrder(side, R(0))
  \/ /\ storeIdle
     /\ orderCounter < MaxOrders
     /\ \E id \in ShownPositionIds : store_closePosition(id, R(0))
  \/ \E f \in inflight : executeResume(f)
  \/ \E f \in inflight : executeOrderResume(f)
  \/ placeOrderResume
  \/ store_closePositionResume

SpecStore == Init /\ [][NextStore]_vars

----------------------------------------------------------------------------
(* Order status lifecycle *)

\* C1: every change of a stored order's status is pending -> filled,
\* pending -> rejected or pending -> cancelled; a filled, rejected or
\* cancelled order never changes status again, however the calls interleave.
C1_StatusLifecycle ==
  [][\A id \in DOMAIN orders :
       orders'[id].status # orders[id].status
         => /\ orders[id].status = "pending"
            /\ orders'[id].status \in {"filled", "rejected", "cancelled"}]_vars

----------------------------------------------------------------------------
(* Position accounting *)

\* the step just taken is closePosition on a position that exists, with a
\* closing order that passed validation
Closing == last'.op = "closePosition" /\ last'.at = "call" /\ last'.value = Pending

\* C2: closePosition on a position of non-zero size submits an order on the
\* side opposite to the position's net exposure for |size| and leaves the
\* position's size at exactly 0.
C2_CloseLeavesZero ==
  [][Closing
       => LET k == findKeys(positionKeys, last'.arg[1])[1]
              submitted == orders'[generateOrderId]
          IN  positions[k].size # R(0)
              => /\ submitted.side =
                      (IF RSign(positions[k].size) > 0 THEN "sell" ELSE "buy")
                 /\ submitted.quantity = RAbs(positions[k].size)
                 /\ positions'[k].size = R(0)]_vars

\* C3: each position's side follows the sign of its size: buy when the size
\* is positive, sell when it is negative.
C3_SideFollowsSign ==
  \A k \in DOMAIN positions :
    /\ RSign(positions[k].size) > 0 => positions[k].side = "buy"
    /\ RSign(positions[k].size) < 0 => positions[k].side = "sell"

\* C4: each position's margin equals |size| * entryPrice / leverage.
C4_MarginFormula ==
  \A k \in DOMAIN positions :
    positions[k].margin =
      RDiv(RMul(RAbs(positions[k].size), positions[k].entryPrice), positions[k].leverage)

----------------------------------------------------------------------------
(* Limit orders that are not marketable *)

\* executeOrder has returned for order `id`
Returned(id) == \A f \in inflight : f.orderId # id

Traded(id) == \E i \in 1 .. Len(trades) : trades[i].orderId = id

\* buy with price < currentPrice, or sell with price > currentPrice
NotMarketable(od, currentPrice) ==
  /\ od.type = "limit"
  /\ \/ od.side = "buy" /\ RLt(od.price, currentPrice)
     \/ od.side = "sell" /\ RGt(od.price, currentPrice)

\* the event is an executeOrder call or return for a valid limit order that
\* is not marketable
Unmarketable(event) ==
  /\ event.op = "executeOrder"
  /\ NotMarketable(event.arg[1], event.arg[3])
  /\ validateOrder(event.arg[1], event.arg[2], event.arg[3]).errors = <<>>

\* C5: a limit order that was not marketable at submission is queued: once
\* executeOrder has returned, and unless cancelOrder has cancelled it, the
\* stored order still has status pending.
C5_UnfilledLimitStaysPending ==
  \A id \in DOMAIN orders :
    (/\ orders[id].type = "limit"
     /\ Returned(id)
     /\ ~Traded(id)
     /\ orders[id].cancelledAt = <<>>)
    => orders[id].status = "pending"

\* C6: for a valid limit order that is not marketable, executeOrder appends no
\* Trade and leaves every position unchanged, both in the step that runs the
\* call and in the step that returns; it returns success = true with
\* executedQuantity = 0 and no trade, and it does not set the stored order to
\* rejected.
C6_UnmarketableLimitNoFill ==
  [][Unmarketable(last')
       => /\ trades' = trades
          /\ positions' = positions
          /\ positionKeys' = positionKeys
          /\ last'.at = "call"
               => /\ last'.value = Pending
                  /\ generateOrderId \in DOMAIN orders'
                  /\ orders'[generateOrderId].status # "rejected"
          /\ last'.at = "return"
               => /\ last'.value.success = TRUE
                  /\ last'.value.executedQuantity = R(0)
                  /\ last'.value.trade = <<>>
                  /\ last'.value.orderId # <<>>
                  /\ orders'[last'.value.orderId[1]].status # "rejected"]_vars

\* executeOrder has returned success with nothing executed for a buy limit
\* order below the current price, which no trade refers to
C6_Witness ==
  /\ Unmarketable(last)
  /\ last.at = "return"
  /\ last.arg[1].side = "buy"
  /\ last.value.success = TRUE
  /\ last.value.executedQuantity = R(0)
  /\ ~Traded(last.value.orderId[1])

\* C7: every filled order has filledQuantity, averagePrice and filledAt set,
\* every rejected order has rejectedReason set, every cancelled order has
\* cancelledAt set.
C7_TerminalFieldsSet ==
  \A id \in DOMAIN orders :
    /\ orders[id].status = "filled"
         => /\ orders[id].filledQuantity # Undef
            /\ orders[id].averagePrice # Undef
            /\ orders[id].filledAt # <<>>
    /\ orders[id].status = "rejected" => orders[id].rejectedReason # <<>>
    /\ orders[id].status = "cancelled" => orders[id].cancelledAt # <<>>

----------------------------------------------------------------------------
(* cancelOrder *)

\* C8: cancelOrder(orderId) returns true, sets the status to cancelled and
\* stamps cancelledAt exactly when the order exists and is pending; otherwise
\* it returns false and leaves orders, positions and trades unchanged.
C8_CancelOnlyPending ==
  [][last'.op = "cancelOrder"
       => LET id == last'.arg[1]
          IN  IF id \in DOMAIN orders /\ orders[id].status = "pending"
              THEN /\ last'.value = TRUE
                   /\ orders'[id].status = "cancelled"
                   /\ orders'[id].cancelledAt = <<now>>
                   /\ \A x \in DOMAIN orders \ {id} : orders'[x] = orders[x]
                   /\ DOMAIN orders' = DOMAIN orders
              ELSE /\ last'.value = FALSE
                   /\ orders' = orders
                   /\ positions' = positions
                   /\ positionKeys' = positionKeys
                   /\ trades' = trades]_vars

\* cancelOrder has returned false for an order that an earlier cancelOrder
\* cancelled
C8_Witness ==
  /\ last.op = "cancelOrder"
  /\ last.value = FALSE
  /\ last.arg[1] \in DOMAIN orders
  /\ orders[last.arg[1]].status = "cancelled"

----------------------------------------------------------------------------
(* Validation failures *)

\* the step just taken is an executeOrder call with order data for which
\* validateOrder reports an error
Refused ==
  /\ last'.op = "executeOrder"
  /\ last'.at = "call"
  /\ validateOrder(last'.arg[1], last'.arg[2], last'.arg[3]).errors # <<>>

\* C9: when validateOrder reports an error for the order data, executeOrder
\* returns success = false with the errors joined by ", " as its error,
\* stores no order and leaves orders, positions, trades, the order counter
\* and the suspended calls as they were.
C9_InvalidOrderNoEffect ==
  [][Refused
       => /\ last'.value # Pending
          /\ last'.value.success = FALSE
          /\ last'.value.error =
               <<join(validateOrder(last'.arg[1], last'.arg[2], last'.arg[3]).errors)>>
          /\ last'.value.orderId = <<>>
          /\ orders' = orders
          /\ positions' = positions
          /\ positionKeys' = positionKeys
          /\ trades' = trades
          /\ orderCounter' = orderCounter
          /\ inflight' = inflight]_vars

\* executeOrder has refused an order for three reasons at once, after an
\* order was stored
C9_Witness ==
  /\ last.op = "executeOrder"
  /\ last.at = "call"
  /\ last.value # Pending
  /\ last.value.success = FALSE
  /\ last.value.error =
       <<"Symbol is required, Order side is required, Order size must be at least $10">>
  /\ orderCounter > 0

----------------------------------------------------------------------------
(* validateOrder *)

MinimumSizeError == "Order size must be at least $10"

HasError(result, error) == \E i \in 1 .. Len(result.errors) : result.errors[i] = error

InsufficientBalanceError(order, userBalance) ==
  "Insufficient balance. Required: $"
    \o toFixed(RMul(order.quantity, order.price), 2)
    \o ", Available: $" \o toFixed(userBalance, 2)

\* quantity * price > userBalance, false when either factor is absent (NaN)
ExceedsBalance(order, userBalance) ==
  /\ order.quantity # Undef
  /\ order.price # Undef
  /\ RGt(RMul(order.quantity, order.price), userBalance)

\* the rules of validateOrder other than the balance check are met
OtherRulesMet(order) ==
  /\ order.symbol # ""
  /\ order.type # ""
  /\ RGt(order.quantity, R(0))
  /\ order.type = "limit" => RGt(order.price, R(0))
  /\ RGe(RMul(order.quantity, order.price), R(minOrderSize))

\* C11: a buy limit order with quantity * price > userBalance is invalid with
\* the insufficient-balance error; a sell order with quantity * price >
\* userBalance does not get that error, and is valid when it meets the other
\* rules.
C11_BalanceGateBuyOnly ==
  (output # <<>> /\ ExceedsBalance(input.order, input.userBalance))
  => LET error == InsufficientBalanceError(input.order, input.userBalance)
     IN  /\ (input.order.side = "buy" /\ input.order.type = "limit")
              => ~output.isValid /\ HasError(output, error)
         /\ input.order.side = "sell"
              => /\ ~HasError(output, error)
                 /\ OtherRulesMet(input.order) => output.isValid

\* a buy limit order of 3 units at $5 against a balance of $12, refused for
\* the balance alone
C11_Witness ==
  /\ output # <<>>
  /\ input.order.side = "buy"
  /\ input.order.type = "limit"
  /\ input.order.quantity = R(3)
  /\ input.order.price = R(5)
  /\ input.userBalance = R(12)
  /\ ~output.isValid
  /\ output.errors = <<"Insufficient balance. Required: $15.00, Available: $12.00">>

\* a sell limit order of 3 units at $5 against a balance of $12 is valid
C11_SellReached ==
  /\ output # <<>>
  /\ input.order.side = "sell"
  /\ input.order.type = "limit"
  /\ input.order.quantity = R(3)
  /\ input.order.price = R(5)
  /\ input.userBalance = R(12)
  /\ output.isValid

----------------------------------------------------------------------------
(* Fills against an existing position *)

\* the step just taken appended a Trade, the last one of trades'
Fills == Len(trades') = Len(trades) + 1

TheFill == trades'[Len(trades')]

SignedQuantity(trade) ==
  IF trade.side = "buy" THEN trade.quantity ELSE RNeg(trade.quantity)

\* the position the fill goes to exists and is flat or on the fill's side
AddsTo(trade) ==
  /\ positionKey(trade) \in DOMAIN positions
  /\ \/ positions[positionKey(trade)].size = R(0)
     \/ RSign(positions[positionKey(trade)].size) = RSign(SignedQuantity(trade))

\* C12: a fill of qty at fillPrice in the direction of an existing position,
\* or into a position of size 0, gives entryPrice (|oldSize| * oldEntry +
\* qty * fillPrice) / (|oldSize| + qty), moves the size by the signed
\* quantity and adds qty * fillPrice / leverage to the margin.
C12_WeightedAverageEntry ==
  [][(Fills /\ AddsTo(TheFill))
       => LET t == TheFill
              old == positions[positionKey(t)]
              new == positions'[positionKey(t)]
          IN  /\ new.entryPrice =
                   RDiv(RAdd(RMul(RAbs(old.size), old.entryPrice),
                             RMul(t.quantity, t.price)),
                        RAdd(RAbs(old.size), t.quantity))
              /\ new.size = RAdd(old.size, SignedQuantity(t))
              /\ new.margin =
                   RAdd(old.margin, RDiv(RMul(t.quantity, t.price), old.leverage))]_vars

\* long 1 @ 10, then buy 2 @ 20 at leverage 2: size 3, entry price 50/3,
\* margin 5 + 20
C12_Witness ==
  /\ Len(trades) = 2
  /\ trades[2].side = "buy"
  /\ trades[2].quantity = R(2)
  /\ \E k \in DOMAIN positions :
       /\ positions[k].size = R(3)
       /\ positions[k].entryPrice = <<50, 3>>
       /\ positions[k].margin = R(25)

\* the position the fill goes to is on the other side and at least as large
\* as the fill
Reduces(trade) ==
  /\ positionKey(trade) \in DOMAIN positions
  /\ RSign(positions[positionKey(trade)].size) = -RSign(SignedQuantity(trade))
  /\ RSign(positions[positionKey(trade)].size) # 0
  /\ RLe(trade.quantity, RAbs(positions[positionKey(trade)].size))

\* C13: a fill of q <= |size| at price p against a position on the other
\* side, with entry price e and leverage L, adds (p - e) * q * L to
\* realizedPnl when a sell reduces a long and (e - p) * q * L when a buy
\* reduces a short, takes q off |size| and leaves entryPrice at e.
C13_RealizedPnlOnReduction ==
  [][(Fills /\ Reduces(TheFill))
       => LET t == TheFill
              old == positions[positionKey(t)]
              new == positions'[positionKey(t)]
              perUnit == IF RSign(old.size) > 0
                         THEN RSub(t.price, old.entryPrice)
                         ELSE RSub(old.entryPrice, t.price)
          IN  /\ new.realizedPnl =
                   RAdd(old.realizedPnl, RMul(RMul(perUnit, t.quantity), old.leverage))
              /\ RAbs(new.size) = RSub(RAbs(old.size), t.quantity)
              /\ RSign(new.size) \in {0, RSign(old.size)}
              /\ new.entryPrice = old.entryPrice]_vars

\* long 2 @ 10 at leverage 2, then sell 1 @ 20: realized (20 - 10) * 1 * 2,
\* size 1, entry price 10
C13_Witness ==
  /\ Len(trades) = 2
  /\ trades[2].side = "sell"
  /\ trades[2].price = R(20)
  /\ \E k \in DOMAIN positions :
       /\ positions[k].size = R(1)
       /\ positions[k].entryPrice = R(10)
       /\ positions[k].realizedPnl = R(20)

----------------------------------------------------------------------------
(* Positions and their keys *)

\* the sum over trades[1..n] with this symbol and leverage of +quantity for a
\* buy and -quantity for a sell
RECURSIVE NetQuantity(_, _, _)
NetQuantity(n, symbol, leverage) ==
  IF n = 0 THEN R(0)
  ELSE RAdd(NetQuantity(n - 1, symbol, leverage),
            IF trades[n].symbol = symbol /\ trades[n].leverage = leverage
            THEN SignedQuantity(trades[n]) ELSE R(0))

PositionsOf(symbol, leverage) ==
  {k \in DOMAIN positions :
     positions[k].symbol = symbol /\ positions[k].leverage = leverage}

\* C14: for every (symbol, leverage) with at least one Trade there is exactly
\* one position record, also when its size is 0, and its size is the sum over
\* the trades of that symbol and leverage of +quantity for buys and -quantity
\* for sells.
C14_OnePositionPerTradedKey ==
  \A i \in 1 .. Len(trades) :
    LET s == trades[i].symbol
        l == trades[i].leverage
    IN  /\ Cardinality(PositionsOf(s, l)) = 1
        /\ Cardinality({j \in 1 .. Len(positionKeys) :
                          positionKeys[j] \in PositionsOf(s, l)}) = 1
        /\ \A k \in PositionsOf(s, l) :
             positions[k].size = NetQuantity(Len(trades), s, l)

\* a position that a buy and a sell have brought back to size 0 is still
\* there, next to a position of another key
C14_Witness ==
  /\ Len(trades) = 3
  /\ trades[1].side = "buy"
  /\ trades[2].side = "sell"
  /\ PositionsOf(trades[1].symbol, trades[1].leverage)
       = PositionsOf(trades[2].symbol, trades[2].leverage)
  /\ \A k \in PositionsOf(trades[1].symbol, trades[1].leverage) :
       positions[k].size = R(0)
  /\ Cardinality(DOMAIN positions) = 2

\* C15: a fill for symbol s at leverage l creates or updates the position of
\* (s, l) and leaves every position of another symbol or of another leverage,
\* the same symbol at another leverage included, unchanged in all fields.
C15_FillTouchesOneKey ==
  [][Fills
       => LET t == TheFill
          IN  /\ \A k \in DOMAIN positions :
                   (positions[k].symbol # t.symbol \/ positions[k].leverage # t.leverage)
                   => k \in DOMAIN positions' /\ positions'[k] = positions[k]
              /\ \E k \in DOMAIN positions' :
                   /\ positions'[k].symbol = t.symbol
                   /\ positions'[k].leverage = t.leverage
                   /\ k \in DOMAIN positions => positions'[k] # positions[k]
                   /\ \A x \in DOMAIN positions' \ {k} : x \in DOMAIN positions]_vars

\* BTC is held at leverage 1 and at leverage 2, in two positions of
\* different sizes
C15_Witness ==
  \E k1, k2 \in DOMAIN positions :
    /\ positions[k1].symbol = "BTC"
    /\ positions[k2].symbol = "BTC"
    /\ positions[k1].leverage = R(1)
    /\ positions[k2].leverage = R(2)
    /\ positions[k1].size = R(1)
    /\ positions[k2].size = R(-2)

----------------------------------------------------------------------------
(* Execution of market and limit orders *)

\* the currentPrice argument of the call of the event
EventPrice(event) == IF event.op = "closePosition" THEN event.arg[2] ELSE event.arg[3]

\* the step just taken stored a new order / returned the result for an order
Submits ==
  /\ last'.op \in {"executeOrder", "closePosition"}
  /\ last'.at = "call"
  /\ orderCounter' = orderCounter + 1
Returns ==
  /\ last'.op \in {"executeOrder", "closePosition"}
  /\ last'.at = "return"

Submitted == orders'[generateOrderId]
ReturnedOrder == orders'[last'.value.orderId[1]]

TradesOf(id) == {i \in 1 .. Len(trades') : trades'[i].orderId = id}

\* [P, 1.001 * P] for a buy, [0.999 * P, P] for a sell
InBand(price, side, P) ==
  IF side = "buy"
  THEN RLe(P, price) /\ RLe(price, RMul(P, <<1001, 1000>>))
  ELSE RLe(RMul(P, <<999, 1000>>), price) /\ RLe(price, P)

\* C16: every valid market order appends exactly one Trade, for its full
\* quantity, and is returned as filled for its full quantity; for a reference
\* price P > 0 the executed price is in [P, 1.001 * P] for a buy and in
\* [0.999 * P, P] for a sell, whatever the slippage drawn.
C16_MarketFillsInBand ==
  [][/\ (Submits /\ Submitted.type = "market")
          => /\ Fills
             /\ TheFill.orderId = Submitted.id
             /\ TheFill.quantity = Submitted.quantity
             /\ RGt(EventPrice(last'), R(0))
                  => InBand(TheFill.price, Submitted.side, EventPrice(last'))
     /\ (Returns /\ ReturnedOrder.type = "market")
          => /\ trades' = trades
             /\ Cardinality(TradesOf(ReturnedOrder.id)) = 1
             /\ last'.value.success = TRUE
             /\ last'.value.executedQuantity = ReturnedOrder.quantity
             /\ ReturnedOrder.status = "filled"
             /\ ReturnedOrder.filledQuantity = ReturnedOrder.quantity
             /\ ReturnedOrder.averagePrice = last'.value.executedPrice
             /\ last'.value.trade # <<>>
             /\ last'.value.trade[1].price = last'.value.executedPrice
             /\ RGt(EventPrice(last'), R(0))
                  => InBand(last'.value.executedPrice, ReturnedOrder.side,
                            EventPrice(last'))]_vars

\* a market sell of 3 at reference price 20 has been filled at 19.982, with
\* slippage 0.0009
C16_Witness ==
  /\ last.op = "executeOrder"
  /\ last.at = "return"
  /\ last.arg[1].side = "sell"
  /\ last.arg[3] = R(20)
  /\ last.value.executedQuantity = R(3)
  /\ last.value.executedPrice = <<9991, 500>>
  /\ orders[last.value.orderId[1]].status = "filled"

\* buy with price >= P, or sell with price <= P
Marketable(order, P) ==
  \/ order.side = "buy" /\ RGe(order.price, P)
  \/ order.side = "sell" /\ RLe(order.price, P)

\* C17: a valid limit order has a Trade appended at submission if and only if
\* it is marketable (buy with price >= currentPrice, sell with price <=
\* currentPrice); the Trade is the only one of the order, it is for the full
\* quantity at the limit price, and the result returned has executedQuantity =
\* quantity and executedPrice = the limit price; an order that is not
\* marketable has no Trade and is returned with executedQuantity = 0.
C17_LimitFillsIffMarketable ==
  [][/\ (Submits /\ Submitted.type = "limit")
          => IF Marketable(Submitted, EventPrice(last'))
             THEN /\ Fills
                  /\ TheFill.orderId = Submitted.id
                  /\ TheFill.quantity = Submitted.quantity
                  /\ TheFill.price = Submitted.price
             ELSE trades' = trades
     /\ (Returns /\ ReturnedOrder.type = "limit")
          => /\ trades' = trades
             /\ last'.value.success = TRUE
             /\ IF Marketable(ReturnedOrder, EventPrice(last'))
                THEN /\ Cardinality(TradesOf(ReturnedOrder.id)) = 1
                     /\ last'.value.executedQuantity = ReturnedOrder.quantity
                     /\ last'.value.executedPrice = ReturnedOrder.price
                     /\ last'.value.trade # <<>>
                     /\ last'.value.trade[1].price = ReturnedOrder.price
                     /\ last'.value.trade[1].quantity = ReturnedOrder.quantity
                ELSE /\ TradesOf(ReturnedOrder.id) = {}
                     /\ last'.value.executedQuantity = R(0)
                     /\ last'.value.trade = <<>>]_vars

\* a buy limit order of 2 at 15 has been filled at 15 while the current
\* price was 10
C17_Witness ==
  /\ last.op = "executeOrder"
  /\ last.at = "return"
  /\ last.arg[1].type = "limit"
  /\ last.arg[1].side = "buy"
  /\ last.arg[1].price = R(15)
  /\ last.arg[3] = R(10)
  /\ last.value.executedQuantity = R(2)
  /\ last.value.executedPrice = R(15)
  /\ last.value.trade # <<>>

\* a sell limit order at 10 has been filled while the current price was 10
C17_AtThePrice ==
  /\ last.op = "executeOrder"
  /\ last.at = "return"
  /\ last.arg[1].side = "sell"
  /\ last.arg[1].price = R(10)
  /\ last.arg[3] = R(10)
  /\ last.value.trade # <<>>

----------------------------------------------------------------------------
(* Risk score *)

RiskMetricsReturned == output # <<>> /\ input.fn = "calculateRiskMetrics"

\* 30 * min(positionCount / maxConcurrentPositions, 1)
CountTerm ==
  RMul(RMin(RDiv(R(Len(input.positions)), limits.maxConcurrentPositions), R(1)), R(30))

\* 30 * min(2 * |r|, 1) when r = totalUnrealizedPnl / accountBalance < 0
LossTerm ==
  LET r == RDiv(output.totalUnrealizedPnl, input.accountBalance)
  IN  IF RLt(r, R(0)) THEN RMul(RMin(RMul(R(2), RAbs(r)), R(1)), R(30)) ELSE R(0)

\* C18 as stated: for accountBalance > 0 the riskScore is the sum of the
\* margin term 40 * marginUtilization capped at 40, the count term and the
\* loss term; with no unrealized loss it never exceeds 40 + the count term,
\* also when marginUtilization > 1.
C18_ScoreIsSumOfCappedTerms ==
  (RiskMetricsReturned /\ RGt(input.accountBalance, R(0)))
  => /\ output.riskScore =
          RAdd(RAdd(RMin(RMul(R(40), output.marginUtilization), R(40)), CountTerm),
               LossTerm)
     /\ RGe(output.totalUnrealizedPnl, R(0))
          => RLe(output.riskScore, RAdd(R(40), CountTerm))

\* C19: for positions with non-negative margins, accountBalance > 0 and
\* maxConcurrentPositions > 0 the riskScore of calculateRiskMetrics is in
\* [0, 100].
C19_ScoreInRange ==
  (/\ RiskMetricsReturned
   /\ \A i \in 1 .. Len(input.positions) : RGe(input.positions[i].margin, R(0))
   /\ RGt(input.accountBalance, R(0))
   /\ RGt(limits.maxConcurrentPositions, R(0)))
  => RLe(R(0), output.riskScore) /\ RLe(output.riskScore, R(100))

\* margin 40 against a balance of 10: the sum of the terms is above 100 and
\* the score is 100
C19_Witness ==
  /\ RiskMetricsReturned
  /\ output.marginUtilization = R(4)
  /\ Len(input.positions) = 2
  /\ output.riskScore = R(100)

\* margin utilizations to compare with
MarginUtilizations == {R(0), <<1, 50>>, <<1, 5>>, <<1, 2>>, R(1), R(2), R(4), R(6)}

\* the pnlRatio argument of the call
PnlRatio == RDiv(output.totalUnrealizedPnl, input.accountBalance)

\* C20: the same position count, P&L ratio and limits with a larger
\* marginUtilization never give a lower riskScore.
C20_MonotoneInMarginUtilization ==
  RiskMetricsReturned
  => \A m \in MarginUtilizations :
       RGe(m, output.marginUtilization)
       => RGe(calculateRiskScore(m, Len(input.positions), PnlRatio), output.riskScore)

\* a score below the cap that a larger margin utilization raises
C20_Witness ==
  /\ RiskMetricsReturned
  /\ output.marginUtilization = <<1, 5>>
  /\ RLt(output.riskScore, R(100))
  /\ RGt(calculateRiskScore(R(1), Len(input.positions), PnlRatio), output.riskScore)

----------------------------------------------------------------------------
(* RiskManager.validateOrder *)

RiskOrderReturned == output # <<>> /\ input.fn = "RiskManager.validateOrder"

HasReason(reason) == \E i \in 1 .. Len(output.reasons) : output.reasons[i] = reason

\* the six checks, as violated by the input
ParametersMissing == ~Truthy(input.order.quantity) \/ ~Truthy(input.order.price)

OrderLeverage == IF Truthy(input.order.leverage) THEN input.order.leverage ELSE R(1)

OrderNotional == RMul(input.order.quantity, input.order.price)

MarginUsed == sumOf(input.positions, "margin")

UtilizationAfter ==
  RDiv(RAdd(MarginUsed, RDiv(OrderNotional, OrderLeverage)), input.accountBalance)

MarginLimitExceeded ==
  ~ParametersMissing /\ RGt(UtilizationAfter, limits.maxMarginUtilization)

NotionalTooLarge == ~ParametersMissing /\ RGt(OrderNotional, limits.maxPositionSize)

TooManyPositions == RGe(R(Len(input.positions)), limits.maxConcurrentPositions)

LeverageTooHigh == RGt(OrderLeverage, limits.maxLeveragePerPosition)

MarginUnavailable ==
  /\ ~ParametersMissing
  /\ RGt(RDiv(OrderNotional, OrderLeverage), RSub(input.accountBalance, MarginUsed))

TooManyPositionsReason ==
  "Too many positions (max: " \o numberToString(limits.maxConcurrentPositions) \o ")"

LeverageTooHighReason ==
  "Leverage too high (max: " \o numberToString(limits.maxLeveragePerPosition) \o "x)"

MarginLimitReason ==
  "Would exceed margin limit (" \o toFixed(RMul(UtilizationAfter, R(100)), 1) \o "%)"

NotionalReason ==
  "Position size too large (max: $" \o toLocaleString(limits.maxPositionSize) \o ")"

Count(b) == IF b THEN 1 ELSE 0

\* C21 as stated: reasons has one entry for each of the six checks that the
\* input violates, whichever the others are, and allowed is true exactly
\* when reasons is empty.
C21_EveryViolatedCheckReported ==
  RiskOrderReturned
  => /\ ParametersMissing => HasReason("Invalid order parameters")
     /\ MarginLimitExceeded => HasReason(MarginLimitReason)
     /\ NotionalTooLarge => HasReason(NotionalReason)
     /\ TooManyPositions => HasReason(TooManyPositionsReason)
     /\ LeverageTooHigh => HasReason(LeverageTooHighReason)
     /\ MarginUnavailable => HasReason("Insufficient available margin")
     /\ output.allowed <=> output.reasons = <<>>

\* C21, amended: when the quantity or the price is absent or 0 the result is
\* allowed = false with the single reason 'Invalid order parameters' and no
\* other check is made; otherwise reasons has exactly one entry for each of
\* the other five checks that is violated; allowed is true exactly when
\* reasons is empty.
C21_ReasonsAfterParameterCheck ==
  RiskOrderReturned
  => /\ ParametersMissing => output.reasons = <<"Invalid order parameters">>
     /\ ~ParametersMissing
          => /\ MarginLimitExceeded <=> HasReason(MarginLimitReason)
             /\ NotionalTooLarge <=> HasReason(NotionalReason)
             /\ TooManyPositions <=> HasReason(TooManyPositionsReason)
             /\ LeverageTooHigh <=> HasReason(LeverageTooHighReason)
             /\ MarginUnavailable <=> HasReason("Insufficient available margin")
             /\ Len(output.reasons) =
                  Count(MarginLimitExceeded) + Count(NotionalTooLarge)
                  + Count(TooManyPositions) + Count(LeverageTooHigh)
                  + Count(MarginUnavailable)
     /\ output.allowed <=> output.reasons = <<>>

\* an order that violates all five of the later checks gets five reasons
C21_Witness ==
  /\ RiskOrderReturned
  /\ ~output.allowed
  /\ output.reasons =
       <<"Would exceed margin limit (6400.0%)",
         "Position size too large (max: $10,000)",
         "Too many positions (max: 2)",
         "Leverage too high (max: 20x)",
         "Insufficient available margin">>

\* an order of one unit is allowed
C21_AllowedReached == RiskOrderReturned /\ output.allowed

----------------------------------------------------------------------------
(* checkRisk *)

\* the step just taken is a checkRisk call for an order with positive
\* quantity and price
ChecksRisk ==
  /\ last'.op = "checkRisk"
  /\ last'.arg[1].quantity # Undef
  /\ last'.arg[1].price # Undef
  /\ RGt(last'.arg[1].quantity, R(0))
  /\ RGt(last'.arg[1].price, R(0))

\* the sum of |size * markPrice| over a list of positions
RECURSIVE Exposure(_)
Exposure(list) ==
  IF list = <<>> THEN R(0)
  ELSE RAdd(RAbs(RMul(Head(list).size, Head(list).markPrice)), Exposure(Tail(list)))

\* C22: for an order with positive quantity and price checkRisk returns
\* allowed = false exactly when notional / leverage > 0.8 * userBalance (then
\* with suggestedMaxSize = 0.8 * userBalance * leverage / price) or the
\* exposure of currentPositions plus the notional > 10 * userBalance;
\* otherwise it returns allowed = true; it changes no engine state.
C22_CheckRiskLimits ==
  [][ChecksRisk
       => LET order == last'.arg[1]
              userBalance == last'.arg[2]
              notional == RMul(order.quantity, order.price)
              leverage == IF Truthy(order.leverage) THEN order.leverage ELSE R(1)
              overMargin == RGt(RDiv(notional, leverage), RMul(<<4, 5>>, userBalance))
              overExposure == RGt(RAdd(Exposure(last'.arg[3]), notional),
                                  RMul(R(10), userBalance))
          IN  /\ last'.value.allowed <=> ~(overMargin \/ overExposure)
              /\ overMargin
                   => last'.value.suggestedMaxSize =
                        RDiv(RMul(RMul(<<4, 5>>, userBalance), leverage), order.price)
              /\ orders' = orders
              /\ positions' = positions
              /\ positionKeys' = positionKeys
              /\ trades' = trades
              /\ orderCounter' = orderCounter
              /\ inflight' = inflight]_vars

\* with a position of exposure 100 held, an order of notional 10 at leverage
\* 25 passes the margin check for a balance of 10 and is refused for the
\* exposure
C22_Witness ==
  /\ last.op = "checkRisk"
  /\ last.arg[1].quantity = R(1)
  /\ last.arg[1].leverage = R(25)
  /\ last.arg[2] = R(10)
  /\ Exposure(last.arg[3]) = R(100)
  /\ last.value.allowed = FALSE
  /\ last.value.reason = <<"Maximum exposure limit reached">>

\* a refusal for the margin, with the size suggested
C22_MarginReached ==
  /\ last.op = "checkRisk"
  /\ last.value.reason = <<"Insufficient margin">>
  /\ last.value.suggestedMaxSize = <<2, 25>>

\* an order that checkRisk allows
C22_AllowedReached == last.op = "checkRisk" /\ last.value.allowed = TRUE

----------------------------------------------------------------------------
(* Risk limits *)

LimitFields ==
  {"maxMarginUtilization", "maxPositionSize", "maxDailyLoss",
   "maxConcurrentPositions", "maxLeveragePerPosition"}

\* the step just taken is a setRiskLimits call
SetsLimits == last'.op = "setRiskLimits" /\ (last' # last \/ limits' # limits)

\* C23: the limits start at (0.8, 10000, 1000, 5, 20); a setRiskLimits call
\* gives each field it supplies the value supplied and leaves the others, so
\* each field has the value of the most recent call that supplied it, or its
\* default; getRiskLimits returns the limits in a copy, and no write to the
\* returned object, nor any other step, changes the limits.
C23_LimitsFollowCalls ==
  /\ limits = [maxMarginUtilization |-> <<4, 5>>, maxPositionSize |-> R(10000),
               maxDailyLoss |-> R(1000), maxConcurrentPositions |-> R(5),
               maxLeveragePerPosition |-> R(20)]
  /\ [][/\ DOMAIN limits' = LimitFields
        /\ SetsLimits
             => \A f \in LimitFields :
                  limits'[f] = IF f \in DOMAIN last'.arg[1]
                               THEN last'.arg[1][f] ELSE limits[f]
        /\ ~SetsLimits => limits' = limits
        /\ last'.op = "getRiskLimits" => last'.value = limits]_vars

\* after setRiskLimits calls for three of the fields the caller has changed
\* the object that getRiskLimits returned, and the limits are as the calls
\* left them
C23_Witness ==
  /\ limits = [maxMarginUtilization |-> <<1, 2>>, maxPositionSize |-> R(10000),
               maxDailyLoss |-> R(500), maxConcurrentPositions |-> R(2),
               maxLeveragePerPosition |-> R(20)]
  /\ output # <<>>
  /\ output.fields # limits
  /\ output.fields.maxConcurrentPositions = R(1)
  /\ last = NoEvent

----------------------------------------------------------------------------
(* Calls that interleave *)

HasTrade(id) == \E i \in 1 .. Len(trades) : trades[i].orderId = id

\* C24: no order with status cancelled has a Trade whose orderId is its id,
\* also when cancelOrder runs while the executeOrder call for the order is
\* suspended at an await.
C24_NoTradeForCancelled ==
  \A id \in DOMAIN orders : orders[id].status = "cancelled" => ~HasTrade(id)

\* the positions after the fills trades[1..n], applied one after the other
RECURSIVE Sequential(_)
Sequential(n) ==
  IF n = 0 THEN <<>>
  ELSE LET before == Sequential(n - 1)
           k == positionKey(trades[n])
       IN  IF k \in DOMAIN before
           THEN [before EXCEPT ![k] = changePosition(before[k], trades[n])]
           ELSE [x \in DOMAIN before \cup {k} |->
                   IF x = k THEN createPosition(trades[n]) ELSE before[x]]

\* the market orders and the marketable limit orders stored
\* C25: when executeOrder calls on one (symbol, leverage) key interleave at
\* their awaits no position update is lost: every fill has its Trade, the
\* position's size is the sum of the signed quantities of the fills, and the
\* positions are those that the same fills give when they are applied one
\* after the other.
C25_NoLostUpdate ==
  /\ \A id \in DOMAIN orders :
       orders[id].type = "market"
         => Cardinality({i \in 1 .. Len(trades) : trades[i].orderId = id}) = 1
  /\ \A k \in DOMAIN positions :
       positions[k].size =
         NetQuantity(Len(trades), positions[k].symbol, positions[k].leverage)
  /\ positions = Sequential(Len(trades))

\* two executeOrder calls on the same key are suspended at the same time,
\* each with its fill recorded, and the position holds both fills
C25_Witness ==
  /\ Cardinality(inflight) = 2
  /\ \A f \in inflight : f.result.trade # <<>> /\ f.result.trade[1].side = "buy"
  /\ Len(trades) = 2
  /\ \E k \in DOMAIN positions : positions[k].size = R(2)

\* the sum over trades[1..n] with this symbol and leverage of +quantity *
\* price for a sell and -quantity * price for a buy
RECURSIVE NetProceeds(_, _, _)
NetProceeds(n, symbol, leverage) ==
  IF n = 0 THEN R(0)
  ELSE RAdd(NetProceeds(n - 1, symbol, leverage),
            IF trades[n].symbol = symbol /\ trades[n].leverage = leverage
            THEN (IF trades[n].side = "sell"
                  THEN RMul(trades[n].quantity, trades[n].price)
                  ELSE RNeg(RMul(trades[n].quantity, trades[n].price)))
            ELSE R(0))

\* C26: a position of size 0 has realizedPnl = leverage * (sum of quantity *
\* price over its sells - sum of quantity * price over its buys), also after
\* a fill that flipped its direction.
C26_RealizedPnlWhenFlat ==
  \A k \in DOMAIN positions :
    positions[k].size = R(0)
    => positions[k].realizedPnl =
         RMul(positions[k].leverage,
              NetProceeds(Len(trades), positions[k].symbol, positions[k].leverage))

----------------------------------------------------------------------------
(* The trade list *)

TradeCount(id) == Cardinality({i \in 1 .. Len(trades) : trades[i].orderId = id})

\* the trade carries its order's data and the fee, and is the order's only one
TradeOfItsOrder(t) ==
  /\ t.orderId \in DOMAIN orders
  /\ t.symbol = orders[t.orderId].symbol
  /\ t.side = orders[t.orderId].side
  /\ t.quantity = orders[t.orderId].quantity
  /\ t.fee = RDiv(RMul(t.quantity, t.price), R(1000))
  /\ TradeCount(t.orderId) = 1

\* trades only grows, by one trade at its end
AppendOnly ==
  \/ trades' = trades
  \/ /\ Len(trades') = Len(trades) + 1
     /\ SubSeq(trades', 1, Len(trades)) = trades

\* C29: every Trade's orderId names a stored order, its symbol, side,
\* quantity and leverage are the order's, its fee is quantity * price * 0.001,
\* no order has two Trades, and no step changes or removes a Trade.
C29_TradeIntegrity ==
  /\ [](\A i \in 1 .. Len(trades) :
          /\ TradeOfItsOrder(trades[i])
          /\ trades[i].leverage = orders[trades[i].orderId].leverage)
  /\ [][AppendOnly]_vars

\* two trades: one of a market order submitted without a leverage, one of a
\* limit order at leverage 2, both orders filled
C29_Witness ==
  /\ Len(trades) = 2
  /\ \E i, j \in 1 .. 2 :
       /\ orders[trades[i].orderId].leverage = R(1)
       /\ orders[trades[i].orderId].type = "market"
       /\ orders[trades[j].orderId].leverage = R(2)
       /\ orders[trades[j].orderId].type = "limit"
  /\ \A id \in DOMAIN orders : orders[id].status = "filled"

----------------------------------------------------------------------------
(* Position ids *)

\* C28: distinct positions have distinct ids, also when both were created at
\* the same clock millisecond, so that closePosition(positionId) acts on the
\* position the caller named.
C28_DistinctPositionIds ==
  \A j, k \in DOMAIN positions : j # k => positions[j].id # positions[k].id

----------------------------------------------------------------------------
(* The store *)

\* C27: every Trade has a price above 0 and a notional quantity * price of at
\* least $10, by whichever path it was recorded (a limit order, a market
\* order without a price, closePosition, an order placed through the store
\* when no price of the selected market is known).
C27_TradesPricedAndSized ==
  \A i \in 1 .. Len(trades) :
    /\ RGt(trades[i].price, R(0))
    /\ RGe(RMul(trades[i].quantity, trades[i].price), R(minOrderSize))

\* C30: the store's closePosition(positionId) passes to the engine the known
\* price of the position's own symbol, never the price of another market
\* and never 0.
C30_ClosesAtOwnPrice ==
  [][(/\ last' # last
      /\ last'.op = "closePosition"
      /\ last'.at = "call"
      /\ findKeys(positionKeys, last'.arg[1]) # <<>>)
     => LET symbol == positions[findKeys(positionKeys, last'.arg[1])[1]].symbol
        IN  /\ symbol \in DOMAIN store.marketData
            /\ last'.arg[2] = store.marketData[symbol].price
            /\ last'.arg[2] # R(0)]_vars

====
